---- MODULE Spec2Model ----
(***************************************************************************)
(* Model of the sub_sync plugin (src/plugin.py): the three hooks the host  *)
(* pipeline calls (on_library_management_file_test, on_worker_process,     *)
(* on_postprocessor_task_results), the directory listings they read and    *)
(* the per-directory 'subs_synced' record they read and write.             *)
(*                                                                         *)
(* Strings are sequences of one-character strings, so that lower(),        *)
(* splitext(), the substring test, shlex.quote() and the [:-2] slice are   *)
(* computed character by character as Python computes them.                *)
(***************************************************************************)
EXTENDS Integers, Sequences, FiniteSets, TLC

\* ------------------------------------------------------------------ bounds
\* most directory entries one directory holds
MaxFiles == 2
\* longest destination_files list handed to the completion recorder
MaxDest == 2

\* ------------------------------------------------------- string primitives
Range(s) == {s[i] : i \in 1..Len(s)}

\* s[a:b] of Python with 0 <= a, b (0-based, b exclusive)
Slice(s, a, b) ==
  LET hi == IF b > Len(s) THEN Len(s) ELSE b
  IN  IF a >= hi THEN <<>> ELSE [i \in 1..(hi - a) |-> s[a + i]]

\* s[:-2] of Python
DropLast2(s) == IF Len(s) <= 2 THEN <<>> ELSE Slice(s, 0, Len(s) - 2)

\* s[:-1]: the slice that removes one trailing character
DropLast1(s) == IF Len(s) <= 1 THEN <<>> ELSE Slice(s, 0, Len(s) - 1)

\* s.rfind(c), 0-based, -1 when absent
RFind(s, c) ==
  LET hits == {i \in 1..Len(s) : s[i] = c}
  IN  IF hits = {} THEN -1
      ELSE (CHOOSE i \in hits : \A j \in hits : j <= i) - 1

\* str.lower() on one character of the alphabet the file names use
LowerChar(c) ==
  CASE c = "A" -> "a"
    [] c = "M" -> "m"
    [] c = "P" -> "p"
    [] c = "R" -> "r"
    [] c = "S" -> "s"
    [] c = "T" -> "t"
    [] OTHER   -> c

Lower(s) == [i \in 1..Len(s) |-> LowerChar(s[i])]

\* the Python operator  sub in s  on strings
Contains(s, sub) ==
  \E k \in 0..(Len(s) - Len(sub)) : Slice(s, k, k + Len(sub)) = sub

\* os.path.basename (posixpath)
Basename(p) == Slice(p, RFind(p, "/") + 1, Len(p))

RECURSIVE RStripSlash(_)
RStripSlash(s) ==
  IF s # <<>> /\ s[Len(s)] = "/" THEN RStripSlash(DropLast1(s)) ELSE s

\* os.path.dirname (posixpath)
Dirname(p) ==
  LET head == Slice(p, 0, RFind(p, "/") + 1)
  IN  IF head # <<>> /\ Range(head) # {"/"} THEN RStripSlash(head) ELSE head

\* os.path.splitext (genericpath._splitext): the extension starts at the
\* last dot of the last path component, leading dots of it not counted
SplitDot(p) ==
  LET sepIndex == RFind(p, "/")
      dotIndex == RFind(p, ".")
  IN  IF dotIndex > sepIndex
         /\ \E k \in (sepIndex + 1)..(dotIndex - 1) : p[k + 1] # "."
      THEN dotIndex
      ELSE Len(p)

SplitextRoot(p) == Slice(p, 0, SplitDot(p))
SplitextExt(p) == Slice(p, SplitDot(p), Len(p))

\* os.path.join of two components (posixpath)
PathJoin(a, b) ==
  IF b # <<>> /\ b[1] = "/" THEN b
  ELSE IF a = <<>> \/ a[Len(a)] = "/" THEN a \o b
  ELSE a \o <<"/">> \o b

\* characters shlex.quote leaves alone ([\w@%+=:,./-])
SafeChars ==
  {"a", "b", "d", "e", "f", "g", "i", "k", "m", "n", "o", "p", "r", "s", "t",
   "u", "v", "y", "c", "A", "M", "P", "R", "S", "T", "4", "@", "%", "+", "=",
   ":", ",", ".", "/", "-", "_"}

RECURSIVE EscapeQuotes(_)
EscapeQuotes(s) ==
  IF s = <<>> THEN <<>>
  ELSE (IF s[1] = "'" THEN <<"'", "\"", "'", "\"", "'">> ELSE <<s[1]>>)
       \o EscapeQuotes(Tail(s))

\* shlex.quote
ShlexQuote(s) ==
  IF s = <<>> THEN <<"'", "'">>
  ELSE IF Range(s) \subseteq SafeChars THEN s
  ELSE <<"'">> \o EscapeQuotes(s) \o <<"'">>

\* collections.Counter of a list: each element with its number of occurrences
Counter(s) ==
  [x \in Range(s) |-> Cardinality({i \in 1..Len(s) : s[i] = x})]


\* ------------------------------------------------- the files of the model
DirD == <<"/", "d">>
Dirs == {DirD}

LowerVideo == <<"a", ".", "m", "p", "4">>
UpperVideo == <<"A", ".", "M", "P", "4">>
OtherVideo == <<"a", ".", "m", "k", "v">>
VideoNames == {LowerVideo, UpperVideo, OtherVideo}

LowerSub == <<"a", ".", "s", "r", "t">>
UpperExtSub == <<"a", ".", "S", "R", "T">>
SpacedSub == <<"a", " ", "b", ".", "s", "r", "t">>
UpperStemSub == <<"A", ".", "s", "r", "t">>
FileNames == {LowerSub, UpperExtSub, SpacedSub, UpperStemSub}

\* full paths the host hands to the hooks
Paths == {PathJoin(d, v) : d \in Dirs, v \in VideoNames}

\* lists of distinct elements of S, of length at most n
RECURSIVE SeqsUpTo(_, _)
SeqsUpTo(S, n) ==
  IF n = 0 THEN {<<>>}
  ELSE LET shorter == SeqsUpTo(S, n - 1)
       IN  shorter \cup
             UNION {{Append(q, x) : x \in S \ Range(q)} : q \in shorter}

\* list with x inserted before 0-based position i
InsertAt(s, i, x) == Slice(s, 0, i) \o <<x>> \o Slice(s, i, Len(s))
\* list without its element at 0-based position i
RemoveAt(s, i) == Slice(s, 0, i) \o Slice(s, i + 1, Len(s))

\* ------------------------------------------------------- string literals
DotSrt == <<".", "s", "r", "t">>
DotMp4 == <<".", "m", "p", "4">>
Bash == <<"b", "a", "s", "h">>
DashC == <<"-", "c">>
FfsubsyncSp == <<"f", "f", "s", "u", "b", "s", "y", "n", "c", " ">>
SpDashISp == <<" ", "-", "i", " ">>
SpDashOSp == <<" ", "-", "o", " ">>
SpGss == <<" ", "-", "-", "g", "s", "s">>
Semicolon == <<";">>


\* ------------------------------------------------------------------ state
VARIABLES
  fs,        \* directory -> its listing, in the order os.listdir returns it
  store,     \* directory -> the saved 'subs_synced' section: key -> list
  hook,      \* the hook that just returned, "idle" between hook calls
  arg,       \* the data mapping that hook was called with
  data,      \* the same mapping when the hook finished
  ret,       \* what the hook handed back: "data", "None" or the exception
  probe,     \* whether the media probe of the last command build succeeded
  warned,    \* whether the last hook call logged a warning
  repeated,  \* whether the recorder was just run a second time in a row
  built,     \* video path and subtitle list of the last command built
  synced     \* paths recorded on success whose directory is unchanged since

vars == <<fs, store, hook, arg, data, ret, probe, warned, repeated, built,
          synced>>
call == <<hook, arg, data, ret, probe, warned, repeated>>
history == <<built, synced>>

NoArg == [kind |-> "none"]
NoBuild == [path |-> <<>>, subs |-> <<>>]
EmptySection == [k \in {} |-> <<>>]

\* ---------------------------------------------- UnmanicDirectoryInfo store
\* directory_info.get(section, key): raises when the key was never set
HasKey(st, d, key) == key \in DOMAIN st[d]

\* directory_info.set(section, key, value) followed by save()
SetAndSave(st, d, key, value) ==
  [st EXCEPT ![d] = [k \in (DOMAIN st[d]) \cup {key} |->
                       IF k = key THEN value ELSE st[d][k]]]

\* ------------------------------------------------------ the inclusion test
\* key of the get call of subs_already_synced
ReadKey(path) == Lower(Basename(path))

\* already_synced: the stored list, or '' when the lookup raised
AlreadySynced(path) ==
  IF HasKey(store, Dirname(path), ReadKey(path))
  THEN store[Dirname(path)][ReadKey(path)]
  ELSE <<>>

\* the inclusion test with the extension compared as written on disk
TestKeepCaseSensitive(path, file) ==
  /\ SplitextExt(file) = DotSrt
  /\ Contains(file, SplitextRoot(Basename(path)))

\* the filter of the loop over os.listdir in subs_already_synced
TestKeep(path, file) ==
  /\ Lower(SplitextExt(file)) = DotSrt
  /\ Contains(file, SplitextRoot(Basename(path)))

\* srts of subs_already_synced
TestSrts(path) ==
  SelectSeq(fs[Dirname(path)], LAMBDA file : TestKeep(path, file))

subs_already_synced(path) == Counter(AlreadySynced(path)) = Counter(TestSrts(path))

on_library_management_file_test(d) ==
  IF Lower(SplitextExt(d.path)) = DotMp4 /\ ~subs_already_synced(d.path)
  THEN [d EXCEPT !.add_file_to_pending_tasks = TRUE]
  ELSE d

FileTest(path, flag, score) ==
  LET d == [path |-> path, add_file_to_pending_tasks |-> flag,
            priority_score |-> score]
  IN  /\ hook = "idle"
      /\ hook' = "test"
      /\ arg' = d
      /\ data' = on_library_management_file_test(d)
      /\ ret' = "data"
      /\ probe' = FALSE
      /\ warned' = FALSE
      /\ repeated' = FALSE
      /\ UNCHANGED <<fs, store>>


\* ------------------------------------------------------ the command builder
\* the filter of the loop over os.listdir in on_worker_process
WorkerKeep(abspath, file) ==
  /\ SplitextExt(file) = DotSrt
  /\ Contains(file, SplitextRoot(Basename(abspath)))

\* srtfiles of on_worker_process
WorkerSrtFiles(abspath) ==
  SelectSeq(fs[Dirname(abspath)], LAMBDA file : WorkerKeep(abspath, file))

\* one formatted "ffsubsync {} -i {} -o {} --gss;" of the loop
CommandPiece(abspath, srt) ==
  FfsubsyncSp \o ShlexQuote(abspath)
    \o SpDashISp \o ShlexQuote(PathJoin(Dirname(abspath), srt))
    \o SpDashOSp \o ShlexQuote(PathJoin(Dirname(abspath), srt))
    \o SpGss \o Semicolon

RECURSIVE ConcatPieces(_, _)
ConcatPieces(abspath, srtfiles) ==
  IF srtfiles = <<>> THEN <<>>
  ELSE CommandPiece(abspath, Head(srtfiles))
       \o ConcatPieces(abspath, Tail(srtfiles))

\* longcommand after the loop and the [:-2] slice
LongCommand(abspath, srtfiles) == DropLast2(ConcatPieces(abspath, srtfiles))

\* the command builder without the early return on an empty srtfiles
WorkerArmedAlways(d, probeOk) ==
  IF ~probeOk
  THEN [d EXCEPT !.exec_command = <<>>, !.repeat = FALSE]
  ELSE [d EXCEPT
          !.exec_command =
             <<Bash, DashC,
               LongCommand(d.original_file_path,
                           WorkerSrtFiles(d.original_file_path))>>,
          !.repeat = FALSE,
          !.command_progress_parser = "parse_progress"]

\* the data mapping as on_worker_process leaves it
WorkerData(d, probeOk) ==
  LET reset == [d EXCEPT !.exec_command = <<>>, !.repeat = FALSE]
      srtfiles == WorkerSrtFiles(d.original_file_path)
  IN  IF ~probeOk THEN reset
      ELSE IF Len(srtfiles) < 1 THEN reset
      ELSE [reset EXCEPT
              !.exec_command =
                 <<Bash, DashC, LongCommand(d.original_file_path, srtfiles)>>,
              !.command_progress_parser = "parse_progress"]

\* how on_worker_process ends: logger.warning(...) returns None, so the
\* .format call on its result raises AttributeError on the failed probe
WorkerRet(d, probeOk) == IF ~probeOk THEN "AttributeError" ELSE "data"

\* task data as the host passes it: fresh, or left over from an earlier run
WorkerInput(abspath, stale) ==
  [original_file_path |-> abspath,
   exec_command |-> IF stale THEN <<Bash>> ELSE <<>>,
   repeat |-> stale,
   command_progress_parser |-> IF stale THEN "host_parser" ELSE "None"]

WorkerProcess(abspath, stale, probeOk) ==
  LET d == WorkerInput(abspath, stale)
  IN  /\ hook = "idle"
      /\ hook' = "worker"
      /\ arg' = d
      /\ data' = WorkerData(d, probeOk)
      /\ ret' = WorkerRet(d, probeOk)
      /\ probe' = probeOk
      /\ warned' = ~probeOk
      /\ repeated' = FALSE
      /\ UNCHANGED <<fs, store>>

\* --------------------------------------------------- the completion recorder
\* the filter of the loop over os.listdir in on_postprocessor_task_results
PostKeep(destination_file, file) ==
  /\ SplitextExt(file) = DotSrt
  /\ Contains(file, SplitextRoot(Basename(destination_file)))

\* the recorder stopping at the first matching directory entry
PostSrtFilesFirstOnly(destination_file) ==
  LET all == SelectSeq(fs[Dirname(destination_file)],
                       LAMBDA file :
                         /\ SplitextExt(file) = DotSrt
                         /\ Contains(file,
                               SplitextRoot(Basename(destination_file))))
  IN  IF all = <<>> THEN <<>> ELSE <<Head(all)>>

\* srtfiles of on_postprocessor_task_results
PostSrtFiles(destination_file) ==
  SelectSeq(fs[Dirname(destination_file)],
            LAMBDA file : PostKeep(destination_file, file))

\* key of the set call of on_postprocessor_task_results
WriteKey(destination_file) == Basename(destination_file)

\* the recorder extending the stored list instead of replacing it
RecordOneAppending(st, destination_file) ==
  LET d == Dirname(destination_file)
      key == WriteKey(destination_file)
      old == IF HasKey(st, d, key) THEN st[d][key] ELSE <<>>
  IN  SetAndSave(st, d, key, old \o PostSrtFiles(destination_file))

\* one iteration of the loop over destination_files
RecordOne(st, destination_file) ==
  SetAndSave(st, Dirname(destination_file), WriteKey(destination_file),
             PostSrtFiles(destination_file))

RECURSIVE RecordAll(_, _)
RecordAll(st, destination_files) ==
  IF destination_files = <<>> THEN st
  ELSE RecordAll(RecordOne(st, Head(destination_files)),
                 Tail(destination_files))

\* the recorder without the test of task_processing_success
PostStoreAnyOutcome(d) == RecordAll(store, d.destination_files)

\* the store as on_postprocessor_task_results leaves it
PostStore(d) ==
  IF ~d.task_processing_success THEN store
  ELSE RecordAll(store, d.destination_files)

PostprocessorTaskResults(success, destination_files) ==
  LET d == [task_processing_success |-> success,
            destination_files |-> destination_files]
  IN  /\ hook = "idle"
      /\ hook' = "post"
      /\ arg' = d
      /\ data' = d
      /\ ret' = "data"
      /\ probe' = FALSE
      /\ warned' = FALSE
      /\ repeated' = FALSE
      /\ store' = PostStore(d)
      /\ UNCHANGED fs

\* the host calls the recorder once more with the data it just got back
PostprocessorTaskResultsAgain ==
  /\ hook = "post"
  /\ store' = PostStore(arg)
  /\ repeated' = TRUE
  /\ UNCHANGED <<fs, hook, arg, data, ret, probe, warned>>

\* the host takes the returned data (or the exception) and goes on
HostResume ==
  /\ hook # "idle"
  /\ hook' = "idle"
  /\ arg' = NoArg
  /\ data' = NoArg
  /\ ret' = "None"
  /\ probe' = FALSE
  /\ warned' = FALSE
  /\ repeated' = FALSE
  /\ UNCHANGED <<fs, store>>

\* -------------------------------------------------------- the environment
\* another process creates a file in a directory
AddFile(d, file, i) ==
  /\ hook = "idle"
  /\ Len(fs[d]) < MaxFiles
  /\ file \notin Range(fs[d])
  /\ i \in 0..Len(fs[d])
  /\ fs' = [fs EXCEPT ![d] = InsertAt(@, i, file)]
  /\ UNCHANGED <<store, call>>

\* another process deletes a file from a directory
RemoveFile(d, i) ==
  /\ hook = "idle"
  /\ i \in 0..(Len(fs[d]) - 1)
  /\ fs' = [fs EXCEPT ![d] = RemoveAt(@, i)]
  /\ UNCHANGED <<store, call>>

\* ------------------------------------------------------- the specification
Init ==
  /\ fs = [d \in Dirs |-> <<>>]
  /\ store = [d \in Dirs |-> EmptySection]
  /\ hook = "idle"
  /\ arg = NoArg
  /\ data = NoArg
  /\ ret = "None"
  /\ probe = FALSE
  /\ warned = FALSE
  /\ repeated = FALSE
  /\ built = NoBuild
  /\ synced = {}

Next ==
  \/ \E path \in Paths, flag \in BOOLEAN, score \in 0..1 :
       FileTest(path, flag, score) /\ UNCHANGED history
  \/ \E abspath \in Paths, stale \in BOOLEAN, probeOk \in BOOLEAN :
       WorkerProcess(abspath, stale, probeOk) /\ UNCHANGED history
  \/ \E success \in BOOLEAN, dests \in SeqsUpTo(Paths, MaxDest) :
       PostprocessorTaskResults(success, dests) /\ UNCHANGED history
  \/ PostprocessorTaskResultsAgain /\ UNCHANGED history
  \/ HostResume /\ UNCHANGED history
  \/ \E d \in Dirs, file \in FileNames, i \in 0..MaxFiles :
       AddFile(d, file, i) /\ UNCHANGED history
  \/ \E d \in Dirs, i \in 0..MaxFiles : RemoveFile(d, i) /\ UNCHANGED history

Spec == Init /\ [][Next]_vars

\* ---- the same hooks, remembering which paths were recorded on success and
\* ---- have had no change in their directory since
SyncedPost(success, dests) ==
  /\ PostprocessorTaskResults(success, dests)
  /\ synced' = IF success THEN synced \cup Range(dests) ELSE synced
  /\ UNCHANGED built

SyncedAddFile(d, file, i) ==
  /\ AddFile(d, file, i)
  /\ synced' = {p \in synced : Dirname(p) # d}
  /\ UNCHANGED built

SyncedRemoveFile(d, i) ==
  /\ RemoveFile(d, i)
  /\ synced' = {p \in synced : Dirname(p) # d}
  /\ UNCHANGED built

NextSynced ==
  \/ \E path \in Paths, flag \in BOOLEAN, score \in 0..1 :
       FileTest(path, flag, score) /\ UNCHANGED history
  \/ \E abspath \in Paths, stale \in BOOLEAN, probeOk \in BOOLEAN :
       WorkerProcess(abspath, stale, probeOk) /\ UNCHANGED history
  \/ \E success \in BOOLEAN, dests \in SeqsUpTo(Paths, MaxDest) :
       SyncedPost(success, dests)
  \/ HostResume /\ UNCHANGED history
  \/ \E d \in Dirs, file \in FileNames, i \in 0..MaxFiles :
       SyncedAddFile(d, file, i)
  \/ \E d \in Dirs, i \in 0..MaxFiles : SyncedRemoveFile(d, i)

SpecSynced == Init /\ [][NextSynced]_vars

\* ---- the hooks as the pipeline calls them: the command builder and the
\* ---- recorder run only for videos the inclusion test can queue; the last
\* ---- command built is remembered: its video and its subtitle list
QueuedPaths == {p \in Paths : Lower(SplitextExt(p)) = DotMp4}

RaceWorker(abspath, stale, probeOk) ==
  /\ WorkerProcess(abspath, stale, probeOk)
  /\ IF WorkerData(WorkerInput(abspath, stale), probeOk).exec_command # <<>>
     THEN built' = [path |-> abspath, subs |-> WorkerSrtFiles(abspath)]
     ELSE UNCHANGED built
  /\ UNCHANGED synced

NextRace ==
  \/ \E path \in Paths, flag \in BOOLEAN, score \in 0..1 :
       FileTest(path, flag, score) /\ UNCHANGED history
  \/ \E abspath \in QueuedPaths, stale \in BOOLEAN, probeOk \in BOOLEAN :
       RaceWorker(abspath, stale, probeOk)
  \/ \E success \in BOOLEAN, dests \in SeqsUpTo(QueuedPaths, MaxDest) :
       PostprocessorTaskResults(success, dests) /\ UNCHANGED history
  \/ HostResume /\ UNCHANGED history
  \/ \E d \in Dirs, file \in FileNames, i \in 0..MaxFiles :
       AddFile(d, file, i) /\ UNCHANGED history
  \/ \E d \in Dirs, i \in 0..MaxFiles : RemoveFile(d, i) /\ UNCHANGED history

SpecRace == Init /\ [][NextRace]_vars


\* ------------------------------------------------------------- properties

\* C1: the inclusion test sets add_file_to_pending_tasks to true exactly when
\* the path's extension is .mp4 (case folded) and the multiset of names
\* recorded under the file's lower-cased name differs from the multiset of
\* listed files with a case-folded .srt extension whose name contains the
\* video's stem; in every other case the data comes back unchanged, in
\* particular when nothing is recorded and no subtitle is listed.
InclusionTestContract ==
  hook = "test" =>
    LET path == arg.path
        dir == Dirname(path)
        key == Lower(Basename(path))
        recorded == IF key \in DOMAIN store[dir] THEN store[dir][key] ELSE <<>>
        listed == SelectSeq(fs[dir],
                    LAMBDA f : /\ Lower(SplitextExt(f)) = DotSrt
                               /\ Contains(f, SplitextRoot(Basename(path))))
        occ(q, x) == Cardinality({i \in 1..Len(q) : q[i] = x})
        differ == \E x \in Range(recorded) \cup Range(listed) :
                    occ(recorded, x) # occ(listed, x)
        queue == Lower(SplitextExt(path)) = DotMp4 /\ differ
    IN  /\ ret = "data"
        /\ queue => data = [arg EXCEPT !.add_file_to_pending_tasks = TRUE]
        /\ ~queue => data = arg
        /\ (recorded = <<>> /\ listed = <<>>) => data = arg

\* C1 witness: a video with a non-empty record is queued because an
\* upper-case .SRT file is listed that the record does not name
InclusionTestQueuesOnDrift ==
  /\ hook = "test"
  /\ ~arg.add_file_to_pending_tasks
  /\ data.add_file_to_pending_tasks
  /\ HasKey(store, Dirname(arg.path), ReadKey(arg.path))
  /\ store[Dirname(arg.path)][ReadKey(arg.path)] # <<>>
  /\ UpperExtSub \in Range(fs[Dirname(arg.path)])

\* C2: once the recorder has run with success for a destination .mp4 file
\* and its directory has not changed since, an inclusion test on that path
\* leaves add_file_to_pending_tasks unset.
NotRequeuedAfterSuccess ==
  ( /\ hook = "test"
    /\ arg.path \in synced
    /\ Lower(SplitextExt(arg.path)) = DotMp4
    /\ ~arg.add_file_to_pending_tasks )
  => ~data.add_file_to_pending_tasks

\* C3: on a failed probe the command builder logs a warning and returns the
\* task data to the host, exec_command empty and repeat false, without
\* raising.
ProbeFailureHandsBackData ==
  (hook = "worker" /\ ~probe) =>
    /\ warned
    /\ ret = "data"
    /\ data.exec_command = <<>>
    /\ data.repeat = FALSE

\* C4: with a successful probe and n >= 1 subtitle files found, the script in
\* exec_command is the n complete invocations (video path, the subtitle path
\* as -i and as -o, the whole --gss flag) joined by the separator, nothing
\* but the trailing separator removed.
ScriptIsCompleteInvocations ==
  (hook = "worker" /\ probe
     /\ WorkerSrtFiles(arg.original_file_path) # <<>>) =>
    LET video == arg.original_file_path
        subs == WorkerSrtFiles(video)
        invocation(srt) ==
          FfsubsyncSp \o ShlexQuote(video)
            \o SpDashISp \o ShlexQuote(PathJoin(Dirname(video), srt))
            \o SpDashOSp \o ShlexQuote(PathJoin(Dirname(video), srt))
            \o SpGss
        joined[n \in 1..Len(subs)] ==
          IF n = 1 THEN invocation(subs[1])
          ELSE joined[n - 1] \o Semicolon \o invocation(subs[n])
    IN  data.exec_command = <<Bash, DashC, joined[Len(subs)]>>

\* C5: a recorder run with task_processing_success false returns its input
\* unchanged and leaves the saved record of every directory as it was.
FailedTaskIsNoOp ==
  [][(hook' = "post" /\ ~arg'.task_processing_success) =>
       /\ store' = store
       /\ data' = arg'
       /\ ret' = "data"]_vars

\* C5 witness: the recorder has run with the failure flag on destinations for
\* which a successful run would have changed the saved record
FailedTaskWouldHaveRecorded ==
  /\ hook = "post"
  /\ ~arg.task_processing_success
  /\ \E dest \in Range(arg.destination_files) : PostSrtFiles(dest) # <<>>
  /\ RecordAll(store, arg.destination_files) # store

\* C6: on success the list persisted for each destination file is exactly the
\* set of listed files whose extension is .srt compared case-insensitively
\* and whose name contains the destination's stem, the candidate set of the
\* inclusion test.
RecordedListIsFoldedCandidateSet ==
  (hook = "post" /\ arg.task_processing_success) =>
    \A dest \in Range(arg.destination_files) :
      /\ HasKey(store, Dirname(dest), WriteKey(dest))
      /\ Range(store[Dirname(dest)][WriteKey(dest)])
           = {f \in Range(fs[Dirname(dest)]) :
                /\ Lower(SplitextExt(f)) = DotSrt
                /\ Contains(f, SplitextRoot(Basename(dest)))}
      /\ Range(store[Dirname(dest)][WriteKey(dest)]) = Range(TestSrts(dest))

\* C7: the command builder leaves repeat false on every path, leaves
\* exec_command non-empty only when the probe succeeded and a listed file has
\* the .srt extension and contains the video's stem, and with no such file
\* hands the data back with exec_command empty and the progress parser as it
\* came in.
CommandArmedOnlyWithSubtitles ==
  hook = "worker" =>
    LET video == arg.original_file_path
        matching == {f \in Range(fs[Dirname(video)]) :
                       /\ SplitextExt(f) = DotSrt
                       /\ Contains(f, SplitextRoot(Basename(video)))}
    IN  /\ data.repeat = FALSE
        /\ data.original_file_path = video
        /\ data.exec_command # <<>> => (probe /\ matching # {})
        /\ matching = {} =>
             /\ data.exec_command = <<>>
             /\ data.command_progress_parser = arg.command_progress_parser
             /\ probe => ret = "data"

\* C7 witness: the probe succeeded on task data carrying an old command and
\* repeat flag, the directory holds files but none the builder matches
StaleCommandClearedWithoutSubtitles ==
  /\ hook = "worker"
  /\ probe
  /\ arg.exec_command # <<>>
  /\ arg.repeat
  /\ fs[Dirname(arg.original_file_path)] # <<>>
  /\ WorkerSrtFiles(arg.original_file_path) = <<>>
  /\ data.exec_command = <<>>

\* C8: the key under which the recorder writes a destination file's list is
\* the lower-cased base name the inclusion test reads for that file.
RecorderWritesKeyTestReads ==
  (hook = "post" /\ arg.task_processing_success) =>
    \A dest \in Range(arg.destination_files) :
      /\ WriteKey(dest) = ReadKey(dest)
      /\ HasKey(store, Dirname(dest), ReadKey(dest))

\* C9: a second recorder run right after the first, with the same data and
\* the same directory contents, leaves the saved record as the first left it.
RecorderIdempotent ==
  [][(hook = "post" /\ hook' = "post" /\ arg' = arg /\ fs' = fs) =>
       store' = store]_vars

\* C9 witness: the recorder ran twice in a row with success and a
\* destination for which a non-empty list is saved
RecorderRanTwice ==
  /\ hook = "post"
  /\ repeated
  /\ arg.task_processing_success
  /\ \E dest \in Range(arg.destination_files) :
       /\ HasKey(store, Dirname(dest), WriteKey(dest))
       /\ store[Dirname(dest)][WriteKey(dest)] # <<>>

\* C10: the recorder saves what it lists when it runs, not what the command
\* was built from: a listed .srt file containing the stem of a video whose
\* command was built without it is in the video's saved list after a
\* successful recorder run for that video.
RacedFileIsRecorded ==
  (hook = "post" /\ arg.task_processing_success
     /\ built.path \in Range(arg.destination_files)) =>
    \A f \in Range(fs[Dirname(built.path)]) :
      ( /\ SplitextExt(f) = DotSrt
        /\ Contains(f, SplitextRoot(Basename(built.path)))
        /\ f \notin Range(built.subs) )
      => f \in Range(store[Dirname(built.path)][WriteKey(built.path)])

\* C10 witness: after the recorder ran for the video of the last built
\* command, the saved list names a file the command had no invocation for,
\* and the inclusion test finds the video already synced
RacedFileTreatedAsSynced ==
  /\ hook = "post"
  /\ arg.task_processing_success
  /\ built.path \in Range(arg.destination_files)
  /\ built.subs # <<>>
  /\ \E f \in Range(AlreadySynced(built.path)) : f \notin Range(built.subs)
  /\ subs_already_synced(built.path)
  /\ on_library_management_file_test(
       [path |-> built.path, add_file_to_pending_tasks |-> FALSE,
        priority_score |-> 0]).add_file_to_pending_tasks = FALSE

====
